---- MODULE Spec2Model ----
(***************************************************************************)
(* GUDOAI: a command-line orchestrator (gudoai_core.py) that keeps one     *)
(* JSON metadata file per project under git and mirrors it into a mock     *)
(* registry (gudoai_api_client.py) stored in one JSON file.                *)
(*                                                                         *)
(* Spec     one project directory driven by the seven CLI commands, each   *)
(*          command one atomic step (the program is single-threaded and    *)
(*          one process runs one command).  git is the external tool the   *)
(*          code shells out to; the metadata file is the one file the      *)
(*          program tracks, so a branch switch restores it.                *)
(* SpecApi  the registry client alone, called with arbitrary arguments.    *)
(***************************************************************************)
EXTENDS Integers, Sequences, FiniteSets, TLC

VARIABLES dir, meta, git, projects, run

vars == <<dir, meta, git, projects, run>>

\* --------------------------------------------------------------- bounds
\* Commits a repository may hold; a command that would commit is not
\* started once the repository is full.
MaxCommits == 5
\* Largest metadata version a command may start from when it increments it.
MaxVersion == 3
\* Largest version handed to the registry client in SpecApi.
MaxArg == 1

\* --------------------------------------------------------------- values
\* Python None for a commit hash; commit hashes are 1, 2, ...
None == 0
\* uuid4() values; the project of Spec draws ProjectUuid.
Ids == {"id1", "id2"}
ProjectUuid == "id1"
ProjectName == "demo"
Names == {"demo", "other"}
DefaultDescription == "New GUDOAI managed project."
Descriptions == {"x"}
AllDescriptions == Descriptions \cup {DefaultDescription}
\* Branch names given to create_feature_branch, and to merge_to_main (which
\* may also name a branch that was never created).
BranchNames == {"f"}
MergeNames == BranchNames \cup {"g"}
MetaFile == "gudoai_meta.json"
\* git ls-files of a repository whose one tracked file is the metadata file.
Manifests == {<<MetaFile>>}
\* Commit hashes handed to the registry client in SpecApi.
Hashes == {1, 2}

Max(S) == CHOOSE x \in S : \A y \in S : y <= x

\* ------------------------------------------------------- metadata file
\* gudoai_meta.json: absent, unparsable, or the five-field JSON object.
MetaRecord(kind, id, v, d, h, r) ==
    [kind |-> kind, project_id |-> id, version |-> v, description |-> d,
     last_api_sync_commit_hash |-> h, api_registered |-> r]

NoFile == MetaRecord("absent", "", 0, "", None, FALSE)

\* A file json.load rejects (git conflict markers).
Corrupt == MetaRecord("corrupt", "", 0, "", None, FALSE)

InitialMeta(id) == MetaRecord("json", id, 0, DefaultDescription, None, FALSE)

Readable(m) == m.kind = "json"

\* ------------------------------------------------------- mock registry
\* self.projects: a dict from project_id to the registry record.
NoProjects == [i \in {} |-> 0]

Response(error, message, body) ==
    [error |-> error, message |-> message, body |-> body]

\* The (status_code, response) pair of a client call and the dict after it.
Reply(status, response, db) ==
    [status |-> status, response |-> response, projects |-> db]

\* Mutant: the record starts out as already synced.
NewRecord_Synced(project_id, project_name, commit_hash, version, description) ==
    [project_id |-> project_id, project_name |-> project_name,
     commit_hash |-> commit_hash, version |-> version,
     description |-> description, file_manifest |-> <<>>,
     last_synced_commit |-> commit_hash, is_deployed |-> FALSE]

\* Mutant: the id and the name are stored in each other's field.
NewRecord_SwappedId(project_id, project_name, commit_hash, version, description) ==
    [project_id |-> project_name, project_name |-> project_id,
     commit_hash |-> commit_hash, version |-> version,
     description |-> description, file_manifest |-> <<>>,
     last_synced_commit |-> None, is_deployed |-> FALSE]

NewRecord(project_id, project_name, commit_hash, version, description) ==
    [project_id |-> project_id, project_name |-> project_name,
     commit_hash |-> commit_hash, version |-> version,
     description |-> description, file_manifest |-> <<>>,
     last_synced_commit |-> None, is_deployed |-> FALSE]

Put(db, project_id, rec) ==
    [i \in DOMAIN db \cup {project_id} |->
        IF i = project_id THEN rec ELSE db[i]]

\* Mutant: the duplicate check never fires.
AlreadyRegistered_Never(db, project_id) == FALSE

AlreadyRegistered(db, project_id) == project_id \in DOMAIN db

\* Mutant: 201 is answered but the record is not kept.
api_client_register_project_NoSave(db, project_id, project_name, commit_hash, version, description) ==
    IF project_id \in DOMAIN db
    THEN Reply(409, Response("Project ID already registered", "", <<>>), db)
    ELSE Reply(201, Response("", "Project registered", <<>>), db)

api_client_register_project(db, project_id, project_name, commit_hash, version, description) ==
    IF AlreadyRegistered(db, project_id)
    THEN Reply(409, Response("Project ID already registered", "", <<>>), db)
    ELSE Reply(201, Response("", "Project registered", <<>>),
               Put(db, project_id,
                   NewRecord(project_id, project_name, commit_hash, version,
                             description)))

\* Mutant: an equal version is let through.
Stale_Strict(version, stored) == version < stored

\* Mutant: no version is refused.
Stale_Never(version, stored) == FALSE

Stale(version, stored) == version <= stored

\* Mutant: last_synced_commit is not set.
SyncedRecord_NoLastSynced(rec, commit_hash, version, description, file_manifest) ==
    [rec EXCEPT !.commit_hash = commit_hash,
                !.version = version,
                !.description = description,
                !.file_manifest = file_manifest]

\* Mutant: the stored version is not replaced by the one sent.
SyncedRecord_KeepVersion(rec, commit_hash, version, description, file_manifest) ==
    [rec EXCEPT !.commit_hash = commit_hash,
                !.description = description,
                !.file_manifest = file_manifest,
                !.last_synced_commit = commit_hash]

SyncedRecord(rec, commit_hash, version, description, file_manifest) ==
    [rec EXCEPT !.commit_hash = commit_hash,
                !.version = version,
                !.description = description,
                !.file_manifest = file_manifest,
                !.last_synced_commit = commit_hash]

api_client_sync_project(db, project_id, commit_hash, version, description, file_manifest) ==
    IF project_id \notin DOMAIN db
    THEN Reply(404, Response("Project not found", "", <<>>), db)
    ELSE IF Stale(version, db[project_id].version)
    THEN Reply(400,
               Response("Stale data: metadata_version must be greater than current.",
                        "", <<>>), db)
    ELSE Reply(200, Response("", "Project state synchronized", <<>>),
               Put(db, project_id,
                   SyncedRecord(db[project_id], commit_hash, version,
                                description, file_manifest)))

api_client_get_project_status(db, project_id) ==
    IF project_id \notin DOMAIN db
    THEN Reply(404, Response("Project not found", "", <<>>), db)
    ELSE Reply(200, Response("", "", <<db[project_id]>>), db)

\* ------------------------------------------------------------------ git
\* The repository of the project directory, as far as the program drives
\* it: commits (hash = position, tree = the tracked metadata file, parents),
\* branch heads (0: no such branch), the checked-out branch, and whether a
\* merge stopped on a conflict.
FeatureBranch(name) == "feature/" \o name

AllBranches == {"master"} \cup {FeatureBranch(b) : b \in MergeNames}

NoRepo ==
    [repo |-> FALSE, commits |-> <<>>,
     branches |-> [b \in AllBranches |-> 0], head |-> "master",
     merging |-> FALSE]

Commit(tree, parents) == [tree |-> tree, parents |-> parents]

HeadCommit(g) == g.branches[g.head]

Tree(g, c) == IF c = 0 THEN NoFile ELSE g.commits[c].tree

\* The working file differs from what HEAD holds.
Dirty(g, m) == m # Tree(g, HeadCommit(g))

RECURSIVE Ancestors(_, _)
Ancestors(g, c) ==
    IF c = 0 THEN {}
    ELSE {c} \cup UNION {Ancestors(g, p) : p \in g.commits[c].parents}

MergeBase(g, a, b) == Max(Ancestors(g, a) \cap Ancestors(g, b))

\* git init
git_init(g) == [g EXCEPT !.repo = TRUE]

\* git add gudoai_meta.json; git commit -m ...: exit status and repository.
\* add fails outside a repository, commit fails with nothing to commit.
git_add_commit(g, m) ==
    IF ~g.repo \/ m.kind = "absent" \/ ~Dirty(g, m)
    THEN [rc |-> 1, git |-> g]
    ELSE [rc |-> 0,
          git |-> [g EXCEPT
                     !.commits = Append(@, Commit(m, {HeadCommit(g)} \ {0})),
                     !.branches[g.head] = Len(g.commits) + 1]]

\* git rev-parse HEAD: the commit hash, None when the command fails.
git_rev_parse_HEAD(g) == IF g.repo THEN HeadCommit(g) ELSE None

\* git ls-files, as split('\n') of its stripped output.
git_ls_files(g) == IF HeadCommit(g) # 0 THEN <<MetaFile>> ELSE <<"">>

\* git checkout -b <branch>: exit status and repository.
git_checkout_b(g, branch) ==
    IF ~g.repo THEN [rc |-> 128, git |-> g]
    ELSE IF HeadCommit(g) = 0 THEN [rc |-> 0, git |-> [g EXCEPT !.head = branch]]
    ELSE IF g.branches[branch] # 0 THEN [rc |-> 128, git |-> g]
    ELSE [rc |-> 0,
          git |-> [g EXCEPT !.branches[branch] = HeadCommit(g),
                            !.head = branch]]

\* git checkout master: exit status, repository and working file.  A clean
\* working file is replaced by master's; a modified one is carried over when
\* both branches hold the same file, and blocks the switch otherwise.
git_checkout_master(g, m) ==
    IF ~g.repo \/ g.branches["master"] = 0 \/ g.merging
       \/ (Dirty(g, m) /\ Tree(g, HeadCommit(g)) # Tree(g, g.branches["master"]))
    THEN [rc |-> 1, git |-> g, meta |-> m]
    ELSE [rc |-> 0, git |-> [g EXCEPT !.head = "master"],
          meta |-> IF Dirty(g, m) THEN m ELSE Tree(g, g.branches["master"])]

\* Three-way merge of the metadata file, field by field.
Merge3Field(base, ours, theirs) ==
    IF ours = base THEN theirs ELSE ours

FieldConflict(base, ours, theirs) ==
    ours # base /\ theirs # base /\ ours # theirs

MetaFields ==
    {"version", "description", "last_api_sync_commit_hash", "api_registered"}

Merge3Conflict(base, ours, theirs) ==
    \E f \in MetaFields : FieldConflict(base[f], ours[f], theirs[f])

Merge3(base, ours, theirs) ==
    [ours EXCEPT
       !.version = Merge3Field(base.version, ours.version, theirs.version),
       !.description =
           Merge3Field(base.description, ours.description, theirs.description),
       !.last_api_sync_commit_hash =
           Merge3Field(base.last_api_sync_commit_hash,
                       ours.last_api_sync_commit_hash,
                       theirs.last_api_sync_commit_hash),
       !.api_registered =
           Merge3Field(base.api_registered, ours.api_registered,
                       theirs.api_registered)]

MergeResult(rc, g, m) == [rc |-> rc, git |-> g, meta |-> m]

\* git merge <branch>: the outcomes git can produce (exit status, repository,
\* working file).  Changes of both sides to the same field always conflict;
\* changes to different fields conflict or not depending on how close the
\* lines are, so both outcomes are possible.
git_merge(g, m, branch) ==
    LET cur == HeadCommit(g)
        target == g.branches[branch]
        base == Tree(g, MergeBase(g, cur, target))
        ours == Tree(g, cur)
        theirs == Tree(g, target)
        merged == Merge3(base, ours, theirs)
        fail == MergeResult(1, g, m)
        conflict == MergeResult(1, [g EXCEPT !.merging = TRUE], Corrupt)
        clean ==
            MergeResult(0,
                [g EXCEPT !.commits = Append(@, Commit(merged, {cur, target})),
                          !.branches[g.head] = Len(g.commits) + 1],
                merged)
    IN  IF ~g.repo \/ g.merging \/ cur = 0 \/ target = 0 THEN {fail}
        ELSE IF target \in Ancestors(g, cur) THEN {MergeResult(0, g, m)}
        ELSE IF cur \in Ancestors(g, target)
        THEN IF Dirty(g, m) /\ ours # theirs THEN {fail}
             ELSE {MergeResult(0, [g EXCEPT !.branches[g.head] = target],
                               IF Dirty(g, m) THEN m ELSE theirs)}
        ELSE IF Dirty(g, m)
        THEN IF ours = theirs
             THEN {fail, MergeResult(0, clean.git, m)}
             ELSE {fail}
        ELSE IF Merge3Conflict(base, ours, theirs) THEN {conflict}
        ELSE IF ours = theirs THEN {clean}
        ELSE {conflict, clean}

\* One registry call as the caller saw it: the arguments and the answer.
Call(op, project_id, project_name, commit_hash, version, description, file_manifest, reply) ==
    [op |-> op, project_id |-> project_id, project_name |-> project_name,
     commit_hash |-> commit_hash, version |-> version,
     description |-> description, file_manifest |-> file_manifest,
     status |-> reply.status, response |-> reply.response]

\* The log of the command line kept for the properties: "never" until the
\* registry has accepted a sync_project, "synced" from an accepted
\* sync_project on, "updated" once an update_meta has run to the end after
\* it.
Since(before, cmd, result, api) ==
    IF cmd = "sync_project" /\ api # <<>> /\ api[1].status = 200
    THEN "synced"
    ELSE IF cmd = "update_meta" /\ result = "ok" /\ before = "synced"
    THEN "updated"
    ELSE before

\* The log, continued: a register_project has run to the end.
RegisteredOnce(before, cmd, result) ==
    before \/ (cmd = "register_project" /\ result = "ok")

\* The log, continued: the last sync_project the registry accepted also
\* ran to the end (wrote and committed the metadata).
SyncCompleted(before, cmd, result, api) ==
    IF cmd = "sync_project" /\ api # <<>> /\ api[1].status = 200
    THEN result = "ok"
    ELSE before

\* What the last command did: its name and argument (description or branch
\* name), how it ended ("ok", "raised", "reported": a registry error
\* printed, "conflict": merge returned False), the exception class, what it
\* printed, and the registry calls it made; and, in since, registered and
\* completed, what the command line has seen so far.
Run(cmd, arg, result, error, printed, api) ==
    [cmd |-> cmd, arg |-> arg, result |-> result, error |-> error,
     printed |-> printed, api |-> api,
     since |-> Since(run.since, cmd, result, api),
     registered |-> RegisteredOnce(run.registered, cmd, result),
     completed |-> SyncCompleted(run.completed, cmd, result, api)]

NoRun ==
    [cmd |-> "none", arg |-> "", result |-> "ok", error |-> "",
     printed |-> "", api |-> <<>>, since |-> "never",
     registered |-> FALSE, completed |-> FALSE]

\* ------------------------------------------- SpecApi: the client alone
ApiInit ==
    /\ dir = FALSE
    /\ meta = NoFile
    /\ git = NoRepo
    /\ projects = NoProjects
    /\ run = NoRun

ApiRegister ==
    \E id \in Ids, name \in Names, h \in Hashes, v \in 0..MaxArg,
       d \in AllDescriptions :
        LET r == api_client_register_project(projects, id, name, h, v, d)
        IN  /\ projects' = r.projects
            /\ run' = Run("client", "", "ok", "", "",
                          <<Call("register", id, name, h, v, d, <<>>, r)>>)
            /\ UNCHANGED <<dir, meta, git>>

ApiSync ==
    \E id \in Ids, h \in Hashes, v \in 0..MaxArg, d \in AllDescriptions,
       fm \in Manifests :
        LET r == api_client_sync_project(projects, id, h, v, d, fm)
        IN  /\ projects' = r.projects
            /\ run' = Run("client", "", "ok", "", "",
                          <<Call("sync", id, "", h, v, d, fm, r)>>)
            /\ UNCHANGED <<dir, meta, git>>

ApiGetStatus ==
    \E id \in Ids :
        LET r == api_client_get_project_status(projects, id)
        IN  /\ projects' = r.projects
            /\ run' = Run("client", "", "ok", "", "",
                          <<Call("status", id, "", None, 0, "", <<>>, r)>>)
            /\ UNCHANGED <<dir, meta, git>>

ApiNext == ApiRegister \/ ApiSync \/ ApiGetStatus

SpecApi == ApiInit /\ [][ApiNext]_vars

\* ------------------------------------------------ Spec: the orchestrator
\* Mutant: the description is set, the version is not raised.
UpdatedMeta_KeepVersion(m, new_description) ==
    [m EXCEPT !.description = new_description]

\* Lines 96-97: the description given and the version raised by one.
UpdatedMeta(m, new_description) ==
    [m EXCEPT !.description = new_description, !.version = @ + 1]

\* Mutant: registration does not raise the version.
RegisteredMeta_NoBump(m, commit_hash) ==
    [m EXCEPT !.api_registered = TRUE,
              !.last_api_sync_commit_hash = commit_hash]

\* Lines 178-180.
RegisteredMeta(m, commit_hash) ==
    [m EXCEPT !.api_registered = TRUE,
              !.last_api_sync_commit_hash = commit_hash,
              !.version = @ + 1]

\* Line 216.
SyncedMeta(m, commit_hash) ==
    [m EXCEPT !.last_api_sync_commit_hash = commit_hash]

\* Mutant: the flag is never seen as set.
IsRegistered_Never(m) == FALSE

\* Mutant: the flag is always seen as set.
IsRegistered_Always(m) == TRUE

\* Lines 167 and 204: meta.get("api_registered", False).
IsRegistered(m) == m.api_registered

\* Line 177: the registry accepted the registration.
Created(status_code) == status_code = 201

\* Mutant: every answer but 404 counts as an accepted sync.
Synced_Lenient(status_code) == status_code # 404

\* Line 215: the registry accepted the sync.
Synced(status_code) == status_code = 200

\* A command that may commit is started only while the repository has room
\* for the commit, one that raises the version only below MaxVersion.
Room == Len(git.commits) < MaxCommits

VersionRoom == meta.version < MaxVersion

\* What can go wrong outside the program after the metadata was computed:
\* "write": open(meta_path, 'w') raises (or the process is killed) and the
\* file keeps its contents; "commit": git add / git commit exits non-zero
\* with the file already written.
Faults == {"none", "write", "commit"}

\* The tail shared by update_meta, register_project and sync_project: write
\* the metadata, git add, git commit (subprocess.run(..., check=True)).
\* Gives the file, the repository and how the command ends.
WriteAndCommit(m1, fault) ==
    IF fault = "write"
    THEN [meta |-> meta, git |-> git, result |-> "raised", error |-> "OSError"]
    ELSE LET c == git_add_commit(git, m1)
         IN  IF fault = "commit" \/ c.rc # 0
             THEN [meta |-> m1, git |-> git, result |-> "raised",
                   error |-> "CalledProcessError"]
             ELSE [meta |-> m1, git |-> c.git, result |-> "ok", error |-> ""]

Raise(cmd, arg, error, message) ==
    /\ run' = Run(cmd, arg, "raised", error, message, <<>>)
    /\ UNCHANGED <<dir, meta, git, projects>>

Init ==
    /\ dir = FALSE
    /\ meta = NoFile
    /\ git = NoRepo
    /\ projects = NoProjects
    /\ run = NoRun

\* Mutant: the repository is initialized first and the metadata written
\* after it, so a failed git init leaves no metadata file.
init_project_GitFirst ==
    IF dir
    THEN Raise("init", "", "FileExistsError", "Project already exists.")
    ELSE \E fault \in {"none", "git_init", "commit"} :
            LET m1 == InitialMeta(ProjectUuid)
                g1 == git_init(git)
                c == git_add_commit(g1, m1)
            IN  /\ dir' = TRUE
                /\ UNCHANGED projects
                /\ IF fault = "git_init"
                   THEN /\ git' = git
                        /\ meta' = meta
                        /\ run' = Run("init", "", "raised", "RuntimeError",
                                      "Git init failed", <<>>)
                   ELSE IF fault = "commit" \/ c.rc # 0
                   THEN /\ git' = g1
                        /\ meta' = m1
                        /\ run' = Run("init", "", "raised", "CalledProcessError",
                                      "", <<>>)
                   ELSE /\ git' = c.git
                        /\ meta' = m1
                        /\ run' = Run("init", "", "ok", "", "", <<>>)

init_project ==
    IF dir
    THEN Raise("init", "", "FileExistsError", "Project already exists.")
    ELSE \E fault \in {"none", "git_init", "commit"} :
            LET m1 == InitialMeta(ProjectUuid)
                g1 == git_init(git)
                c == git_add_commit(g1, m1)
            IN  /\ dir' = TRUE
                /\ meta' = m1
                /\ UNCHANGED projects
                /\ IF fault = "git_init"
                   THEN /\ git' = git
                        /\ run' = Run("init", "", "raised", "RuntimeError",
                                      "Git init failed", <<>>)
                   ELSE IF fault = "commit" \/ c.rc # 0
                   THEN /\ git' = g1
                        /\ run' = Run("init", "", "raised", "CalledProcessError",
                                      "", <<>>)
                   ELSE /\ git' = c.git
                        /\ run' = Run("init", "", "ok", "", "", <<>>)

update_metadata ==
    \E new_description \in Descriptions :
        IF meta.kind = "absent"
        THEN Raise("update_meta", new_description, "FileNotFoundError", "")
        ELSE IF meta.kind = "corrupt"
        THEN Raise("update_meta", new_description, "ValueError", "File is not valid JSON.")
        ELSE /\ Room
             /\ VersionRoom
             /\ \E fault \in Faults :
                  LET w == WriteAndCommit(UpdatedMeta(meta, new_description),
                                          fault)
                  IN  /\ meta' = w.meta
                      /\ git' = w.git
                      /\ run' = Run("update_meta", new_description, w.result, w.error, "", <<>>)
                      /\ UNCHANGED <<dir, projects>>

create_feature_branch ==
    \E branch_name \in BranchNames :
        IF ~dir
        THEN Raise("create_feature_branch", branch_name, "FileNotFoundError", "")
        ELSE LET c == git_checkout_b(git, FeatureBranch(branch_name))
             IN  IF c.rc # 0
                 THEN Raise("create_feature_branch", branch_name, "RuntimeError",
                            "Failed to create branch")
                 ELSE /\ git' = c.git
                      /\ run' = Run("create_feature_branch", branch_name, "ok", "", "", <<>>)
                      /\ UNCHANGED <<dir, meta, projects>>

merge_to_main ==
    \E feature_branch_name \in MergeNames :
        IF ~dir
        THEN Raise("merge_to_main", feature_branch_name, "FileNotFoundError", "")
        ELSE LET s == git_checkout_master(git, meta)
             IN  IF s.rc # 0
                 THEN Raise("merge_to_main", feature_branch_name, "RuntimeError",
                            "Failed to switch to main branch")
                 ELSE /\ Room
                      /\ \E r \in git_merge(s.git, s.meta,
                                            FeatureBranch(feature_branch_name)) :
                           /\ git' = r.git
                           /\ meta' = r.meta
                           /\ run' = Run("merge_to_main", feature_branch_name,
                                         IF r.rc # 0 THEN "conflict" ELSE "ok",
                                         "", "", <<>>)
                           /\ UNCHANGED <<dir, projects>>

register_project ==
    IF ~Readable(meta)
    THEN Raise("register_project", "", "ValueError", "Failed to read metadata")
    ELSE IF IsRegistered(meta)
    THEN Raise("register_project", "", "ValueError",
               "Project already registered with the API.")
    ELSE LET commit_hash == git_rev_parse_HEAD(git)
             reply == api_client_register_project(projects, meta.project_id,
                          ProjectName, commit_hash, meta.version,
                          meta.description)
             call == Call("register", meta.project_id, ProjectName,
                          commit_hash, meta.version, meta.description, <<>>,
                          reply)
         IN  IF commit_hash = None
             THEN Raise("register_project", "", "RuntimeError",
                        "Failed to get commit hash")
             ELSE /\ Room
                  /\ VersionRoom
                  /\ projects' = reply.projects
                  /\ UNCHANGED dir
                  /\ IF Created(reply.status)
                     THEN \E fault \in Faults :
                            LET w == WriteAndCommit(
                                         RegisteredMeta(meta, commit_hash), fault)
                            IN  /\ meta' = w.meta
                                /\ git' = w.git
                                /\ run' = Run("register_project", "", w.result,
                                              w.error, "", <<call>>)
                     ELSE /\ run' = Run("register_project", "", "reported", "",
                                        reply.response.error, <<call>>)
                          /\ UNCHANGED <<meta, git>>

sync_project ==
    IF ~Readable(meta)
    THEN Raise("sync_project", "", "ValueError", "Failed to read metadata")
    ELSE IF ~IsRegistered(meta)
    THEN Raise("sync_project", "", "ValueError",
               "Project not registered with the API.")
    ELSE LET commit_hash == git_rev_parse_HEAD(git)
             files == git_ls_files(git)
             reply == api_client_sync_project(projects, meta.project_id,
                          commit_hash, meta.version, meta.description, files)
             call == Call("sync", meta.project_id, "", commit_hash,
                          meta.version, meta.description, files, reply)
         IN  IF commit_hash = None
             THEN Raise("sync_project", "", "RuntimeError",
                        "Failed to get commit hash")
             ELSE /\ Room
                  /\ projects' = reply.projects
                  /\ UNCHANGED dir
                  /\ IF Synced(reply.status)
                     THEN \E fault \in Faults :
                            LET w == WriteAndCommit(
                                         SyncedMeta(meta, commit_hash), fault)
                            IN  /\ meta' = w.meta
                                /\ git' = w.git
                                /\ run' = Run("sync_project", "", w.result,
                                              w.error, "", <<call>>)
                     ELSE /\ run' = Run("sync_project", "", "reported", "",
                                        reply.response.error, <<call>>)
                          /\ UNCHANGED <<meta, git>>

\* Lines 275-279: the comparison check_api_status prints.
HashReport(local_hash, last_commit) ==
    IF local_hash = last_commit THEN "match" ELSE "mismatch"

\* Mutant: the local hash is compared with the record's commit_hash.
check_api_status_CommitHash ==
    IF ~Readable(meta)
    THEN Raise("check_api_status", "", "ValueError", "Failed to read metadata")
    ELSE LET reply == api_client_get_project_status(projects, meta.project_id)
             call == Call("status", meta.project_id, "", None, 0, "", <<>>,
                          reply)
         IN  /\ run' = Run("check_api_status", "",
                           IF reply.status = 200 THEN "ok" ELSE "reported",
                           "",
                           IF reply.status = 200
                           THEN HashReport(meta.last_api_sync_commit_hash,
                                    reply.response.body[1].commit_hash)
                           ELSE reply.response.error,
                           <<call>>)
             /\ projects' = reply.projects
             /\ UNCHANGED <<dir, meta, git>>

check_api_status ==
    IF ~Readable(meta)
    THEN Raise("check_api_status", "", "ValueError", "Failed to read metadata")
    ELSE LET reply == api_client_get_project_status(projects, meta.project_id)
             call == Call("status", meta.project_id, "", None, 0, "", <<>>,
                          reply)
         IN  /\ run' = Run("check_api_status", "",
                           IF reply.status = 200 THEN "ok" ELSE "reported",
                           "",
                           IF reply.status = 200
                           THEN HashReport(meta.last_api_sync_commit_hash,
                                    reply.response.body[1].last_synced_commit)
                           ELSE reply.response.error,
                           <<call>>)
             /\ projects' = reply.projects
             /\ UNCHANGED <<dir, meta, git>>

Next ==
    \/ init_project
    \/ update_metadata
    \/ create_feature_branch
    \/ merge_to_main
    \/ register_project
    \/ sync_project
    \/ check_api_status

Spec == Init /\ [][Next]_vars

\* ================================================================ claims
LocalId == meta.project_id

\* The local metadata says the project was registered or synced.
LocalClaimsRegistry ==
    /\ Readable(meta)
    /\ (meta.api_registered \/ meta.last_api_sync_commit_hash # None)

\* C1 (as stated): whenever the local metadata has api_registered = true or
\* a non-null last_api_sync_commit_hash, the registry holds a record under
\* the local project_id and that record's commit_hash equals the local
\* last_api_sync_commit_hash.
C1_Original ==
    LocalClaimsRegistry =>
        /\ LocalId \in DOMAIN projects
        /\ projects[LocalId].commit_hash = meta.last_api_sync_commit_hash

\* C1 (amended): whenever the local metadata has api_registered = true or a
\* non-null last_api_sync_commit_hash, the registry holds a record under the
\* local project_id; local state never claims a registration the registry
\* did not persist, also when a command aborts after the registry call.
C1_LocalNeverAheadOfRegistry ==
    LocalClaimsRegistry => LocalId \in DOMAIN projects

\* C1 witness: a sync the registry accepted aborted before the local write,
\* so the registry holds a newer commit hash than the local file.
C1_Witness ==
    /\ run.cmd = "sync_project"
    /\ run.result = "raised"
    /\ run.api # <<>>
    /\ run.api[1].status = 200
    /\ LocalClaimsRegistry
    /\ LocalId \in DOMAIN projects
    /\ projects[LocalId].commit_hash # meta.last_api_sync_commit_hash

\* The state right after init, update_meta and a successful
\* register_project, with no other command having left a trace: three
\* commits on master, no feature branch, and the registration sent what
\* update_meta had committed.
ScenarioRegistered ==
    /\ run.cmd = "register_project"
    /\ run.result = "ok"
    /\ run.api[1].commit_hash = 2
    /\ run.api[1].version = git.commits[2].tree.version
    /\ run.api[1].description = git.commits[2].tree.description
    /\ git.head = "master"
    /\ \A b \in MergeNames : git.branches[FeatureBranch(b)] = 0
    /\ Len(git.commits) = 3
    /\ git.commits[1] = Commit(InitialMeta(ProjectUuid), {})
    /\ git.commits[2].parents = {1}
    /\ git.commits[2].tree.version = 1
    /\ git.commits[2].tree.description \in Descriptions
    /\ ~git.commits[2].tree.api_registered
    /\ git.commits[3].parents = {2}
    /\ meta = git.commits[3].tree

\* C2 (as stated): after init, update_meta and a successful
\* register_project the local version is 1 and the registry's version is 1,
\* and a sync_project issued next is rejected by the registry with 400.
C2_Original ==
    [][(ScenarioRegistered /\ run'.cmd = "sync_project") =>
         /\ meta.version = 1
         /\ projects[LocalId].version = 1
         /\ run'.api # <<>>
         /\ run'.api[1].status = 400]_vars

\* C2 (amended): after init, update_meta and a successful register_project
\* the local version is 2 (registration raises it) and the registry's
\* version is 1, so a sync_project issued next sends version 2 and is
\* accepted by the registry with 200 without a further update_meta.
C2_SyncAfterRegisterAccepted ==
    [][(ScenarioRegistered /\ run'.cmd = "sync_project") =>
         /\ meta.version = 2
         /\ projects[LocalId].version = 1
         /\ run'.api # <<>>
         /\ run'.api[1].version = 2
         /\ run'.api[1].status = 200]_vars

\* C2 witness: the scenario followed by a sync_project that went through.
C2_Witness ==
    /\ run.cmd = "sync_project"
    /\ run.result = "ok"
    /\ git.head = "master"
    /\ \A b \in MergeNames : git.branches[FeatureBranch(b)] = 0
    /\ Len(git.commits) = 4
    /\ git.commits[1] = Commit(InitialMeta(ProjectUuid), {})
    /\ git.commits[2].tree.version = 1
    /\ git.commits[3].tree.version = 2
    /\ git.commits[3].tree.api_registered
    /\ git.commits[3].tree.last_api_sync_commit_hash = 2
    /\ projects[LocalId].version = 2
    /\ meta.last_api_sync_commit_hash = 3

\* C3: register on an id the registry already holds answers 409 and leaves
\* every record as it was, whatever name, hash, version and description
\* are passed.
C3_DuplicateRegisterRejected ==
    [][(/\ run'.api # <<>>
        /\ run'.api[1].op = "register"
        /\ run'.api[1].project_id \in DOMAIN projects)
       => /\ run'.api[1].status = 409
          /\ projects' = projects]_vars

\* C3 witness: a 409 for arguments that all differ from the stored record,
\* with a second record in the registry.
C3_Witness ==
    /\ run.cmd = "client"
    /\ run.api # <<>>
    /\ run.api[1].op = "register"
    /\ run.api[1].status = 409
    /\ DOMAIN projects = Ids
    /\ LET c == run.api[1]
           r == projects[c.project_id]
       IN  /\ r.project_name # c.project_name
           /\ r.commit_hash # c.commit_hash
           /\ r.version # c.version
           /\ r.description # c.description

\* C4: registry sync with a version not above the stored one answers 400,
\* sync on an absent id answers 404, and either leaves the registry as it
\* was.
C4_StaleOrUnknownSyncRejected ==
    [][(run'.api # <<>> /\ run'.api[1].op = "sync")
       => LET c == run'.api[1]
          IN  /\ c.project_id \notin DOMAIN projects =>
                    c.status = 404 /\ projects' = projects
              /\ (/\ c.project_id \in DOMAIN projects
                  /\ c.version <= projects[c.project_id].version) =>
                    c.status = 400 /\ projects' = projects]_vars

\* C4 witness: a 400 for a version equal to the stored one, sent with a
\* commit hash and a description other than the stored ones.
C4_Witness ==
    /\ run.cmd = "client"
    /\ run.api # <<>>
    /\ run.api[1].op = "sync"
    /\ run.api[1].status = 400
    /\ LET c == run.api[1]
           r == projects[c.project_id]
       IN  /\ r.version = c.version
           /\ r.commit_hash # c.commit_hash
           /\ r.description # c.description
           /\ r.file_manifest # c.file_manifest

\* C5: registry sync with a version above the stored one answers 200 and
\* stores the passed commit hash, version, description and manifest, with
\* last_synced_commit the passed hash and project_id, project_name and
\* is_deployed as before; a getStatus that follows answers 200 with those
\* values.
C5_SyncStoresAndStatusShows ==
    [][/\ (/\ run'.api # <<>>
           /\ run'.api[1].op = "sync"
           /\ run'.api[1].project_id \in DOMAIN projects
           /\ run'.api[1].version > projects[run'.api[1].project_id].version)
          => LET c == run'.api[1]
                 old == projects[c.project_id]
                 new == projects'[c.project_id]
             IN  /\ c.status = 200
                 /\ new.commit_hash = c.commit_hash
                 /\ new.version = c.version
                 /\ new.description = c.description
                 /\ new.file_manifest = c.file_manifest
                 /\ new.last_synced_commit = c.commit_hash
                 /\ new.project_id = old.project_id
                 /\ new.project_name = old.project_name
                 /\ new.is_deployed = old.is_deployed
       /\ (/\ run.api # <<>>
           /\ run.api[1].op = "sync"
           /\ run.api[1].status = 200
           /\ run'.api # <<>>
           /\ run'.api[1].op = "status"
           /\ run'.api[1].project_id = run.api[1].project_id)
          => LET c == run.api[1]
                 s == run'.api[1]
             IN  /\ s.status = 200
                 /\ Len(s.response.body) = 1
                 /\ s.response.body[1].commit_hash = c.commit_hash
                 /\ s.response.body[1].version = c.version
                 /\ s.response.body[1].description = c.description
                 /\ s.response.body[1].file_manifest = c.file_manifest
                 /\ s.response.body[1].last_synced_commit = c.commit_hash
                 /\ s.response.body[1].project_id = c.project_id
                 /\ s.response.body[1].is_deployed = FALSE]_vars

\* C5 witness: getStatus showing a record that a sync has overwritten.
C5_Witness ==
    /\ run.cmd = "client"
    /\ run.api # <<>>
    /\ run.api[1].op = "status"
    /\ run.api[1].status = 200
    /\ LET r == run.api[1].response.body[1]
       IN  /\ r.last_synced_commit = 2
           /\ r.commit_hash = 2
           /\ r.version = 1
           /\ r.description = "x"
           /\ r.file_manifest = <<MetaFile>>
           /\ r.project_name = "other"

\* C6: a register_project that ran to the end got 201 for the current HEAD
\* hash and the current version; afterwards the local metadata has
\* api_registered = true, last_api_sync_commit_hash = the hash sent and the
\* version raised by exactly 1, and the new registry record carries the
\* version from before, the hash sent, an empty manifest, no
\* last_synced_commit and is_deployed = false.
C6_RegisterEffect ==
    [][(run'.cmd = "register_project" /\ run'.result = "ok")
       => /\ Len(run'.api) = 1
          /\ run'.api[1].op = "register"
          /\ run'.api[1].status = 201
          /\ run'.api[1].commit_hash = HeadCommit(git)
          /\ LocalId \notin DOMAIN projects
          /\ meta' = [kind |-> "json",
                      project_id |-> meta.project_id,
                      version |-> meta.version + 1,
                      description |-> meta.description,
                      last_api_sync_commit_hash |-> run'.api[1].commit_hash,
                      api_registered |-> TRUE]
          /\ projects'[LocalId] =
                [project_id |-> meta.project_id,
                 project_name |-> ProjectName,
                 commit_hash |-> run'.api[1].commit_hash,
                 version |-> meta.version,
                 description |-> meta.description,
                 file_manifest |-> <<>>,
                 last_synced_commit |-> None,
                 is_deployed |-> FALSE]]_vars

\* C6 witness: right after a registration of a project whose version had
\* already been raised by update_meta.
C6_Witness ==
    /\ run.cmd = "register_project"
    /\ run.result = "ok"
    /\ meta.api_registered
    /\ meta.version = 2
    /\ projects[LocalId].version = 1
    /\ projects[LocalId].last_synced_commit = None
    /\ meta.last_api_sync_commit_hash = projects[LocalId].commit_hash

\* C7: with local api_registered already true, register_project raises the
\* state error before any registry call; registry, metadata and repository
\* stay as they were.
C7_DoubleRegisterRaises ==
    [][(/\ Readable(meta)
        /\ meta.api_registered
        /\ run'.cmd = "register_project")
       => /\ run'.result = "raised"
          /\ run'.error = "ValueError"
          /\ run'.printed = "Project already registered with the API."
          /\ run'.api = <<>>
          /\ projects' = projects
          /\ meta' = meta
          /\ git' = git]_vars

\* C7 witness: register_project was refused on a registered project.
C7_Witness ==
    /\ run.cmd = "register_project"
    /\ run.result = "raised"
    /\ run.printed = "Project already registered with the API."
    /\ Readable(meta)
    /\ meta.api_registered
    /\ LocalId \in DOMAIN projects

\* C8: when the registry answers register_project with anything but 201 or
\* sync_project with anything but 200, the command does not raise, prints
\* the registry's error, and leaves the metadata file and the repository
\* (no commit) as they were.
C8_RejectionLeavesLocalState ==
    [][(/\ run'.api # <<>>
        /\ \/ run'.cmd = "register_project" /\ run'.api[1].status # 201
           \/ run'.cmd = "sync_project" /\ run'.api[1].status # 200)
       => /\ run'.result = "reported"
          /\ run'.error = ""
          /\ run'.printed = run'.api[1].response.error
          /\ run'.printed # ""
          /\ meta' = meta
          /\ git' = git]_vars

\* C8 witness: a sync_project the registry refused as stale.
C8_Witness ==
    /\ run.cmd = "sync_project"
    /\ run.result = "reported"
    /\ run.api # <<>>
    /\ run.api[1].status = 400
    /\ run.api[1].version = projects[LocalId].version

\* C9: an update_meta that ran to the end raised the version by exactly 1
\* and set the description to the text given; project_id, api_registered,
\* last_api_sync_commit_hash and the registry are as before.
C9_UpdateMetaEffect ==
    [][(run'.cmd = "update_meta" /\ run'.result = "ok")
       => /\ Readable(meta)
          /\ meta'.kind = "json"
          /\ meta'.version = meta.version + 1
          /\ meta'.description = run'.arg
          /\ meta'.project_id = meta.project_id
          /\ meta'.api_registered = meta.api_registered
          /\ meta'.last_api_sync_commit_hash = meta.last_api_sync_commit_hash
          /\ projects' = projects]_vars

\* C9 witness: update_meta on a registered project that had been updated
\* before.
C9_Witness ==
    /\ run.cmd = "update_meta"
    /\ run.result = "ok"
    /\ meta.api_registered
    /\ meta.version = 3
    /\ meta.last_api_sync_commit_hash # None
    /\ meta.description = run.arg

\* C10 (as stated): across every sequence of commands after init the local
\* version never decreases, api_registered never goes from true to false
\* and project_id never changes.
C10_Original ==
    [][(Readable(meta) /\ Readable(meta'))
       => /\ meta'.version >= meta.version
          /\ (meta.api_registered => meta'.api_registered)
          /\ meta'.project_id = meta.project_id]_vars

\* C11: with local api_registered false, sync_project raises the
\* not-registered state error before any registry call; registry, metadata
\* and repository stay as they were.
C11_SyncUnregisteredRaises ==
    [][(/\ Readable(meta)
        /\ ~meta.api_registered
        /\ run'.cmd = "sync_project")
       => /\ run'.result = "raised"
          /\ run'.error = "ValueError"
          /\ run'.printed = "Project not registered with the API."
          /\ run'.api = <<>>
          /\ projects' = projects
          /\ meta' = meta
          /\ git' = git]_vars

\* C11 witness: sync_project was refused on a project whose file says
\* unregistered while the registry does hold its record, so a registry call
\* would have been answered.
C11_Witness ==
    /\ run.cmd = "sync_project"
    /\ run.result = "raised"
    /\ run.printed = "Project not registered with the API."
    /\ Readable(meta)
    /\ ~meta.api_registered
    /\ LocalId \in DOMAIN projects
    /\ meta.version > projects[LocalId].version

\* What C12 says of one sync_project the registry answered with 200: the
\* version sent is the local one, and of the local metadata only
\* last_api_sync_commit_hash may differ afterwards, being the hash sent
\* once the command has run to the end.
SyncFrame ==
    (/\ run'.cmd = "sync_project"
     /\ run'.api # <<>>
     /\ run'.api[1].status = 200)
    => /\ run'.api[1].version = meta.version
       /\ run'.api[1].commit_hash = HeadCommit(git)
       /\ meta' \in {meta, SyncedMeta(meta, run'.api[1].commit_hash)}
       /\ run'.result = "ok" =>
            meta' = SyncedMeta(meta, run'.api[1].commit_hash)

\* What C12 concludes: between two readable metadata files the version
\* differs only over an update_meta or a register_project the registry
\* accepted.
VersionChangesOnlyByUpdateOrRegister ==
    (Readable(meta) /\ Readable(meta') /\ meta'.version # meta.version)
    => \/ run'.cmd = "update_meta"
       \/ /\ run'.cmd = "register_project"
          /\ run'.api # <<>>
          /\ run'.api[1].status = 201

\* C12 (as stated): a sync_project the registry answered with 200 sent the
\* current local version unmodified and changes only
\* last_api_sync_commit_hash, to the hash sent; version, description,
\* api_registered and project_id are as before, so the version changes only
\* through update_meta and a successful register_project.
C12_Original ==
    [][SyncFrame /\ VersionChangesOnlyByUpdateOrRegister]_vars

\* C13: over every registry call (register, sync, getStatus) each record
\* stays and its stored version does not decrease, and the record of a sync
\* answered with 200 has a strictly greater version after the call than
\* before it.
C13_RegistryVersionMonotone ==
    [][/\ \A id \in DOMAIN projects :
            /\ id \in DOMAIN projects'
            /\ projects'[id].version >= projects[id].version
       /\ (/\ run'.api # <<>>
           /\ run'.api[1].op = "sync"
           /\ run'.api[1].status = 200)
          => /\ run'.api[1].project_id \in DOMAIN projects
             /\ projects'[run'.api[1].project_id].version
                  > projects[run'.api[1].project_id].version]_vars

\* C13 witness: a sync answered with 200 has raised one record's version
\* while the registry holds a second record at a lower version.
C13_Witness ==
    /\ run.cmd = "client"
    /\ run.api # <<>>
    /\ run.api[1].op = "sync"
    /\ run.api[1].status = 200
    /\ DOMAIN projects = Ids
    /\ projects[run.api[1].project_id].version = 1
    /\ \E id \in Ids : projects[id].version = 0

\* C14: over every command no registry record is removed, every record's
\* project_id is the key it is stored under, a record register_project
\* creates is stored under the local project_id, and is_deployed is false
\* in every record.
C14_RecordsKept ==
    [][/\ DOMAIN projects \subseteq DOMAIN projects'
       /\ \A id \in DOMAIN projects' :
            /\ projects'[id].project_id = id
            /\ projects'[id].is_deployed = FALSE
       /\ \A id \in DOMAIN projects' \ DOMAIN projects :
            run'.cmd = "register_project" =>
                Readable(meta) /\ id = meta.project_id]_vars

\* C14 witness: the record of a project that was registered and synced is
\* still held after a branch switch has put back metadata that says
\* unregistered.
C14_Witness ==
    /\ run.cmd = "merge_to_main"
    /\ Readable(meta)
    /\ ~meta.api_registered
    /\ LocalId \in DOMAIN projects
    /\ projects[LocalId].project_id = LocalId
    /\ projects[LocalId].last_synced_commit # None
    /\ projects[LocalId].is_deployed = FALSE

MergeOutcomes ==
    (run'.cmd = "merge_to_main" /\ dir)
    => /\ run'.result \in {"raised", "conflict", "ok"}
       /\ run'.result = "raised" <=> git_checkout_master(git, meta).rc # 0
       /\ run'.result = "raised" =>
            run'.error = "RuntimeError" /\ git' = git /\ meta' = meta
       /\ run'.result = "conflict" => git'.commits = git.commits
       /\ run'.api = <<>>
       /\ projects' = projects
       /\ Len(git'.commits) \in {Len(git.commits), Len(git.commits) + 1}
       /\ SubSeq(git'.commits, 1, Len(git.commits)) = git.commits
       /\ Len(git'.commits) > Len(git.commits) =>
            /\ run'.result = "ok"
            /\ Cardinality(git'.commits[Len(git'.commits)].parents) = 2

\* What C16 says of the metadata file: its contents are the same after
\* merge_to_main as before.
MergeKeepsMetadata ==
    (run'.cmd = "merge_to_main" /\ dir) => meta' = meta

\* C16 (as stated): merge_to_main raises when switching to the main branch
\* fails, returns false without raising when the merge fails and true
\* otherwise; in all three outcomes it makes no commit of its own and
\* leaves the metadata file contents and the registry unchanged.
C16_Original ==
    [][MergeOutcomes /\ MergeKeepsMetadata]_vars

\* C17: check_api_status leaves the metadata file, the repository and the
\* registry as they were; with a readable file, when the registry holds the
\* record it reports "match" exactly when the local
\* last_api_sync_commit_hash equals the record's last_synced_commit and
\* "mismatch" otherwise, and when the registry answers 404 it prints the
\* registry's error without raising.
C17_StatusReadOnly ==
    [][run'.cmd = "check_api_status" =>
        /\ meta' = meta
        /\ git' = git
        /\ projects' = projects
        /\ (Readable(meta) /\ LocalId \in DOMAIN projects) =>
            /\ run'.result = "ok"
            /\ run'.api[1].status = 200
            /\ run'.printed \in {"match", "mismatch"}
            /\ run'.printed = "match" <=>
                 meta.last_api_sync_commit_hash
                   = projects[LocalId].last_synced_commit
        /\ (Readable(meta) /\ LocalId \notin DOMAIN projects) =>
            /\ run'.result = "reported"
            /\ run'.error = ""
            /\ run'.api[1].status = 404
            /\ run'.printed = "Project not found"]_vars

\* C17 witness: a mismatch reported between two hashes that are both set,
\* on a project the file says is registered.
C17_Witness ==
    /\ run.cmd = "check_api_status"
    /\ run.result = "ok"
    /\ run.printed = "mismatch"
    /\ meta.api_registered
    /\ meta.last_api_sync_commit_hash # None
    /\ projects[LocalId].last_synced_commit # None

\* The file says registered: readable, with api_registered = true.
LocallyRegistered(m) == Readable(m) /\ m.api_registered

\* The registry's version of the local project is not above the local one.
VersionOrder(m, db) ==
    LocallyRegistered(m) =>
        /\ m.project_id \in DOMAIN db
        /\ db[m.project_id].version <= m.version

\* The versions right after a command that set them: equal after a
\* sync_project the registry accepted, the registry's strictly less after
\* an update_meta or a register_project that changed the file.
VersionAfterCommand ==
    LocallyRegistered(meta') =>
        /\ (/\ run'.cmd = "sync_project"
            /\ run'.api # <<>>
            /\ run'.api[1].status = 200)
           => projects'[meta'.project_id].version = meta'.version
        /\ (run'.cmd \in {"update_meta", "register_project"} /\ meta' # meta)
           => projects'[meta'.project_id].version < meta'.version

\* C18 (as stated): in every reachable state where the project is
\* registered the registry record's version is at most the local version;
\* it is equal after a successful sync_project and strictly less after a
\* register_project or an update_meta.
C18_Original ==
    [][VersionOrder(meta', projects') /\ VersionAfterCommand]_vars

\* This command is a sync_project the registry answered with 200.
SyncAccepted(r) ==
    r.cmd = "sync_project" /\ r.api # <<>> /\ r.api[1].status = 200

\* A sync_project run directly after an accepted sync_project is answered
\* with 400.
RepeatedSyncRejected ==
    (SyncAccepted(run) /\ run'.cmd = "sync_project")
    => /\ run'.api # <<>>
       /\ run'.api[1].status = 400
       /\ run'.result = "reported"

\* C19 (as stated): between any two sync_project commands the registry
\* accepts with 200 there is at least one successful update_meta, and a
\* sync_project repeated directly after a successful one is rejected with
\* 400.
C19_Original ==
    [][/\ SyncAccepted(run') => run.since # "synced"
       /\ RepeatedSyncRejected]_vars

\* C19 (amended): a sync_project repeated directly after one the registry
\* accepted is rejected with 400, and every sync_project the registry
\* accepts sends a version strictly above the one the registry stored at
\* the last accepted sync (or at registration): between two accepted syncs
\* the local version has been raised, though not necessarily by an
\* update_meta that ran to the end.
C19_AcceptedSyncsRaiseVersion ==
    [][/\ RepeatedSyncRejected
       /\ SyncAccepted(run') =>
            /\ run'.api[1].version = meta.version
            /\ run'.api[1].version > projects[LocalId].version
            /\ projects'[LocalId].version = run'.api[1].version]_vars

\* C19 witness: a sync_project was refused as stale while the last commit
\* is the one an accepted sync_project made and no update_meta has run to
\* the end since.
C19_Witness ==
    /\ run.cmd = "sync_project"
    /\ run.result = "reported"
    /\ run.api[1].status = 400
    /\ run.since = "synced"
    /\ projects[LocalId].version = meta.version
    /\ projects[LocalId].last_synced_commit = meta.last_api_sync_commit_hash
    /\ git.commits[HeadCommit(git)].tree = meta
    /\ git.commits[HeadCommit(git)].parents = {meta.last_api_sync_commit_hash}

\* C20 (as stated): for a registered project whose registry record exists,
\* a sync_project issued directly after an update_meta that ran to the end
\* is accepted by the registry with 200.
C20_Original ==
    [][(/\ run.cmd = "update_meta"
        /\ run.result = "ok"
        /\ LocallyRegistered(meta)
        /\ LocalId \in DOMAIN projects
        /\ run'.cmd = "sync_project")
       => /\ run'.api # <<>>
          /\ run'.api[1].status = 200]_vars

\* C21, first half: a register_project has run to the end and the registry
\* has accepted no sync_project yet; check_api_status then reports a
\* mismatch.
MismatchBeforeFirstSync ==
    (/\ run.registered
     /\ run.since = "never"
     /\ run'.cmd = "check_api_status")
    => run'.printed = "mismatch"

\* C21, second half: the last sync_project the registry accepted ran to the
\* end; check_api_status then reports a match.
MatchAfterSync ==
    (/\ run.since # "never"
     /\ run.completed
     /\ run'.cmd = "check_api_status")
    => run'.printed = "match"

\* C21 (as stated): after a successful register_project and before the
\* first sync_project the registry accepts, check_api_status always reports
\* a mismatch; after a successful sync_project and until the next
\* successful sync it always reports a match.
C21_Original ==
    [][MismatchBeforeFirstSync /\ MatchAfterSync]_vars

====
